---- MODULE Spec2Model ----
(***************************************************************************)
(* Model of bcws_wxstn_data.py: the month-window splitter                  *)
(* (_getFilteredMonthDays) and the download driver (getWX).                *)
(*                                                                         *)
(* A yyyymmddhh string is modelled by the integer whose decimal digits it  *)
(* is; Strptime and Strftime convert between that and a datetime record,   *)
(* as the code does.                                                       *)
(***************************************************************************)
EXTENDS Integers, Sequences, FiniteSets, TLC

\* ------------------------------------------------------------------------
\* Bounds of the model
\* ------------------------------------------------------------------------

\* number of calendar years the date inputs are drawn from (2020, 2021, ...)
NumYears == 2

Years == 2020..(2019 + NumYears)

\* months, days and hours the inputs are drawn from
InputMonths == {1, 2, 3, 6, 11, 12}

InputHours == {0, 8, 23}

\* longest query_names list
MaxNames == 2

\* most features in the caller's shapefile
MaxFeatures == 2

\* largest totalPageCount the upstream reports for one request
MaxPages == 2

\* most pages the upstream serves in one run
MaxTotalPages == 3

\* ------------------------------------------------------------------------
\* Calendar arithmetic (datetime, calendar)
\* ------------------------------------------------------------------------

\* year that dates are pinned to for month/day comparisons
SentinelYear == 2020

\* year datetime.strptime assumes when the format has no %Y
StrptimeDefaultYear == 1900

IsLeap(y) == (y % 4 = 0 /\ y % 100 # 0) \/ y % 400 = 0

\* calendar.monthrange(year, month)[1]
MonthRange(y, m) ==
    IF m = 2 THEN (IF IsLeap(y) THEN 29 ELSE 28)
    ELSE IF m \in {4, 6, 9, 11} THEN 30 ELSE 31

ValidDate(y, m, d) == m \in 1..12 /\ d \in 1..MonthRange(y, m)

\* datetime.strptime(s, '%Y%m%d%H')
Strptime(s) ==
    [year |-> s \div 1000000, month |-> (s \div 10000) % 100,
     day |-> (s \div 100) % 100, hour |-> s % 100]

\* datetime.strftime('%Y%m%d%H')
Strftime(d) == d.year * 1000000 + d.month * 10000 + d.day * 100 + d.hour

\* s[4:8] of a yyyymmddhh string
SliceMMDD(s) == (s \div 100) % 10000

\* datetime.strptime(mmdd, '%m%d') succeeds: the date must exist in 1900
StrptimeMMDDOk(mmdd) == ValidDate(StrptimeDefaultYear, mmdd \div 100, mmdd % 100)

\* datetime.strptime(mmdd, '%m%d').date().replace(year=2020)
PinnedMMDD(mmdd) == [year |-> SentinelYear, month |-> mmdd \div 100, day |-> mmdd % 100]

\* datetime.date().replace(year=2020)
PinDate(d) == [year |-> SentinelYear, month |-> d.month, day |-> d.day]

\* ordering of date objects
DateOrd(d) == (d.year * 13 + d.month) * 32 + d.day

\* ordering of datetime objects
DtOrd(d) == DateOrd(d) * 24 + d.hour

\* the datetime one hour after d
NextHour(d) ==
    IF d.hour < 23 THEN [d EXCEPT !.hour = d.hour + 1]
    ELSE IF d.day < MonthRange(d.year, d.month)
         THEN [d EXCEPT !.day = d.day + 1, !.hour = 0]
    ELSE IF d.month < 12
         THEN [d EXCEPT !.month = d.month + 1, !.day = 1, !.hour = 0]
    ELSE [year |-> d.year + 1, month |-> 1, day |-> 1, hour |-> 0]

\* ------------------------------------------------------------------------
\* _getFilteredMonthDays
\* ------------------------------------------------------------------------

\* "Move to the first day of the next month"
NextMonthStart(current_date) ==
    IF current_date.month = 12
    THEN [current_date EXCEPT !.year = current_date.year + 1, !.month = 1]
    ELSE [current_date EXCEPT !.month = current_date.month + 1, !.day = 1]

\* last day of the current month, clamped to end_date
LastDay(current_date, end_date) ==
    LET last_day == [current_date EXCEPT
                        !.day = MonthRange(current_date.year, current_date.month)]
    IN IF DtOrd(last_day) > DtOrd(end_date) THEN end_date ELSE last_day

\* the month passes the recurring month/day filter
InSeason(first_day, last_day, mmdd_start, mmdd_end) ==
    LET first_mmdd == DateOrd(PinDate(first_day))
        last_mmdd == DateOrd(PinDate(last_day))
    IN \/ DateOrd(mmdd_start) <= first_mmdd /\ first_mmdd <= DateOrd(mmdd_end)
       \/ DateOrd(mmdd_start) <= last_mmdd /\ last_mmdd <= DateOrd(mmdd_end)

\* first day of the window after clipping to mmdd_start
ClipFirst(first_day, mmdd_start) ==
    IF DateOrd(PinDate(first_day)) < DateOrd(mmdd_start)
    THEN [first_day EXCEPT !.month = mmdd_start.month, !.day = mmdd_start.day]
    ELSE first_day

\* mutant of ClipLast: the end of the window is never clipped
ClipLastNever(last_day, mmdd_end) == last_day

\* last day of the window after clipping to mmdd_end
ClipLast(last_day, mmdd_end) ==
    IF DateOrd(PinDate(last_day)) > DateOrd(mmdd_end)
    THEN [last_day EXCEPT !.month = mmdd_end.month, !.day = mmdd_end.day]
    ELSE last_day

\* mutant of FilteredWindow: the hours are left as they are
FilteredWindowKeepHours(first_day, last_day) ==
    <<Strftime(first_day), Strftime(last_day)>>

\* the window appended when the filter is on: hours forced to 00 and 23
FilteredWindow(first_day, last_day) ==
    <<Strftime([first_day EXCEPT !.hour = 0]), Strftime([last_day EXCEPT !.hour = 23])>>

\* the window appended when the filter is off
PlainWindow(first_day, last_day) == <<Strftime(first_day), Strftime(last_day)>>

\* first value of current_date
FirstMonthStart(start_date) == [start_date EXCEPT !.day = 1]

\* the while loop; the result is the list, or a ValueError raised by replace()
RECURSIVE MonthLoop(_, _, _, _, _, _)
MonthLoop(current_date, end_date, mmdd_start, mmdd_end, filter, month_boundaries) ==
    IF ~(DtOrd(current_date) <= DtOrd(end_date))
    THEN [raised |-> "none", windows |-> month_boundaries]
    ELSE
      LET first_day == current_date
          last_day == LastDay(current_date, end_date)
          next == NextMonthStart(current_date)
      IN IF filter
         THEN IF InSeason(first_day, last_day, mmdd_start, mmdd_end)
              THEN LET f == ClipFirst(first_day, mmdd_start)
                       l == ClipLast(last_day, mmdd_end)
                   IN IF ~ValidDate(f.year, f.month, f.day)
                         \/ ~ValidDate(l.year, l.month, l.day)
                      THEN [raised |-> "ValueError", windows |-> <<>>]
                      ELSE MonthLoop(next, end_date, mmdd_start, mmdd_end, filter,
                                     Append(month_boundaries, FilteredWindow(f, l)))
              ELSE MonthLoop(next, end_date, mmdd_start, mmdd_end, filter,
                             month_boundaries)
         ELSE MonthLoop(next, end_date, mmdd_start, mmdd_end, filter,
                        Append(month_boundaries, PlainWindow(first_day, last_day)))

\* _getFilteredMonthDays(start_date_str, end_date_str, filter_month_days)
GetFilteredMonthDays(s, e, filter) ==
    IF ~StrptimeMMDDOk(SliceMMDD(s)) \/ ~StrptimeMMDDOk(SliceMMDD(e))
    THEN [raised |-> "ValueError", windows |-> <<>>]
    ELSE MonthLoop(FirstMonthStart(Strptime(s)), Strptime(e),
                   PinnedMMDD(SliceMMDD(s)), PinnedMMDD(SliceMMDD(e)),
                   filter, <<>>)

\* ------------------------------------------------------------------------
\* Inputs
\* ------------------------------------------------------------------------

InputDays(y, m) == {1, 10, 20, MonthRange(y, m)}

\* the valid datetimes the inputs are drawn from
DateTimes ==
    {d \in [year : Years, month : InputMonths, day : 1..31, hour : InputHours] :
        d.day \in InputDays(d.year, d.month)}

\* their yyyymmddhh strings
DateStrings == {Strftime(d) : d \in DateTimes}

\* ------------------------------------------------------------------------
\* State
\* ------------------------------------------------------------------------

VARIABLES
    start_date_str,     \* _getFilteredMonthDays: argument
    end_date_str,       \* _getFilteredMonthDays: argument
    filter_arg,         \* _getFilteredMonthDays: argument filter_month_days
    month_boundaries,   \* _getFilteredMonthDays: the list returned
    split_pc,           \* "call", "returned" or "raised" ("idle" under Spec)
    query_method,       \* getWX: argument
    data_type,          \* getWX: argument
    start_date,         \* getWX: argument, rewritten for dailies
    end_date,           \* getWX: argument, rewritten for dailies
    filter_month_days,  \* getWX: argument
    query_names,        \* getWX: argument
    search_radius,      \* getWX: argument, as str() prints it: None or a number
    shp,                \* the file at shp_path: [exists, crs4326, geometry, feats]
    pc,                 \* getWX: position in the function
    raised,             \* getWX: the exception that ended the run, or NoError
    wx_dates,           \* getWX: local
    url_list,           \* getWX: local, Unbound until assigned
    url_idx,            \* getWX: index of url in "for url in url_list"
    page_count,         \* getWX: local
    page_i,             \* getWX: i of "for i in range(1, page_count + 1)"
    requests,           \* HTTP requests sent, in order
    answered,           \* HTTP responses received, in order
    responses,          \* getWX: local, one entry per page fetched
    files,              \* output files written, in order
    no_data_reported,   \* 'No data was found' was printed
    temp,               \* the temp folder: [dir, file] exist
    filter_hours,       \* getWX: argument
    data_df             \* getWX: local, the table handed to to_csv

svars == <<start_date_str, end_date_str, filter_arg, month_boundaries, split_pc>>

inputs == <<query_method, data_type, filter_month_days, query_names, search_radius, shp>>

gvars == <<inputs, start_date, end_date, pc, raised, wx_dates, url_list, url_idx,
           page_count, page_i, requests, answered, responses, files,
           no_data_reported, temp>>

avars == <<filter_hours, data_df>>

vars == <<svars, gvars, avars>>

None == "None"

Unbound == "Unbound"

NoError == [type |-> "none"]

\* getWX has not been called
WXIdle ==
    /\ query_method = "station" /\ data_type = "hourlies"
    /\ start_date = 0 /\ end_date = 0
    /\ filter_month_days = FALSE
    /\ query_names = <<>> /\ search_radius = None
    /\ shp = [exists |-> FALSE, crs4326 |-> TRUE, geometry |-> "Point", feats |-> 0]
    /\ pc = "idle" /\ raised = NoError
    /\ wx_dates = <<>> /\ url_list = Unbound /\ url_idx = 0
    /\ page_count = 0 /\ page_i = 0
    /\ requests = <<>> /\ answered = <<>> /\ responses = <<>>
    /\ files = <<>> /\ no_data_reported = FALSE
    /\ temp = [dir |-> FALSE, file |-> FALSE]

\* no table has been assembled
TableIdle ==
    /\ filter_hours = FALSE /\ data_df = <<>>

\* _getFilteredMonthDays has not been called on its own
SplitIdle ==
    /\ start_date_str = 0 /\ end_date_str = 0 /\ filter_arg = FALSE
    /\ month_boundaries = <<>> /\ split_pc = "idle"

\* ------------------------------------------------------------------------
\* Specification of _getFilteredMonthDays on its own
\* ------------------------------------------------------------------------

SplitInit ==
    /\ start_date_str \in DateStrings
    /\ end_date_str \in DateStrings
    /\ start_date_str <= end_date_str
    /\ filter_arg \in BOOLEAN
    /\ month_boundaries = <<>>
    /\ split_pc = "call"
    /\ WXIdle
    /\ TableIdle

\* the call returns its list
SplitReturn ==
    /\ split_pc = "call"
    /\ LET r == GetFilteredMonthDays(start_date_str, end_date_str, filter_arg)
       IN /\ r.raised = "none"
          /\ month_boundaries' = r.windows
    /\ split_pc' = "returned"
    /\ UNCHANGED <<start_date_str, end_date_str, filter_arg, gvars, avars>>

\* the call raises ValueError
SplitRaise ==
    /\ split_pc = "call"
    /\ GetFilteredMonthDays(start_date_str, end_date_str, filter_arg).raised # "none"
    /\ split_pc' = "raised"
    /\ UNCHANGED <<start_date_str, end_date_str, filter_arg, month_boundaries, gvars, avars>>

SplitNext == SplitReturn \/ SplitRaise

SplitSpec == SplitInit /\ [][SplitNext]_vars

\* ------------------------------------------------------------------------
\* Claims about _getFilteredMonthDays (checked under SplitSpec)
\* ------------------------------------------------------------------------

range_start == Strptime(start_date_str)

range_end == Strptime(end_date_str)

\* month/day of a yyyymmddhh string, as a number mmdd
MMDD(s) == SliceMMDD(s)

WinStart(i) == Strptime(month_boundaries[i][1])

WinEnd(i) == Strptime(month_boundaries[i][2])

NumWindows == Len(month_boundaries)

SameYear == range_start.year = range_end.year

SameMonth == SameYear /\ range_start.month = range_end.month

LeapDayInput == MMDD(start_date_str) = 229 \/ MMDD(end_date_str) = 229

\* C1: with the filter off, every range yields windows that are in
\* chronological order, contiguous (each starts at the hour after the
\* previous one's end) and whose union is exactly [range.start, range.end].
C1_ContiguousExactCover ==
    (split_pc # "call" /\ ~filter_arg) =>
        /\ split_pc = "returned"
        /\ NumWindows >= 1
        /\ month_boundaries[1][1] = start_date_str
        /\ month_boundaries[NumWindows][2] = end_date_str
        /\ \A i \in 1..NumWindows : DtOrd(WinStart(i)) <= DtOrd(WinEnd(i))
        /\ \A i \in 1..(NumWindows - 1) : WinStart(i + 1) = NextHour(WinEnd(i))

\* C2: for both values of the filter, whenever a window is emitted the first
\* window starts exactly at range.start and the last ends exactly at
\* range.end (same date, same hour).
C2_ExactBoundaryHours ==
    (split_pc = "returned" /\ NumWindows >= 1) =>
        /\ month_boundaries[1][1] = start_date_str
        /\ month_boundaries[NumWindows][2] = end_date_str

\* a month/day lies inside the annual season of the range
InsideSeason(mmdd) == MMDD(start_date_str) <= mmdd /\ mmdd <= MMDD(end_date_str)

\* C3: with the filter on, every emitted window lies inside the annual
\* season (start and end month/day within the month/day of range.start and
\* range.end), a window reaching outside is clipped to the bounds, and a
\* month with no day inside the season yields no window.
C3_WindowsInsideSeason ==
    (split_pc = "returned" /\ filter_arg) =>
        \A i \in 1..NumWindows :
            /\ InsideSeason(MMDD(month_boundaries[i][1]))
            /\ InsideSeason(MMDD(month_boundaries[i][2]))
            /\ WinStart(i).year = WinEnd(i).year
            /\ WinStart(i).month = WinEnd(i).month
            /\ WinStart(i).day <= WinEnd(i).day
            /\ \/ WinStart(i).day = 1
               \/ MMDD(month_boundaries[i][1]) = MMDD(start_date_str)
            /\ \/ WinEnd(i).day = MonthRange(WinEnd(i).year, WinEnd(i).month)
               \/ MMDD(month_boundaries[i][2]) = MMDD(end_date_str)
            /\ \E d \in 1..MonthRange(WinStart(i).year, WinStart(i).month) :
                   InsideSeason(WinStart(i).month * 100 + d)

\* C3 witness: a range over two years whose season is cut at both ends:
\* a window clipped at its start, a window clipped at its end, and months
\* of the range that yielded no window.
C3_Witness ==
    /\ split_pc = "returned" /\ filter_arg
    /\ range_start.year < range_end.year
    /\ NumWindows >= 2
    /\ \E i \in 1..NumWindows : WinStart(i).day # 1
    /\ \E i \in 1..NumWindows :
          /\ WinEnd(i).day # MonthRange(WinEnd(i).year, WinEnd(i).month)
          /\ WinEnd(i).year < range_end.year
    /\ NumWindows < 12

EndMonthSkipped ==
    /\ range_end.day = 1
    /\ range_end.hour < range_start.hour
    /\ range_end.month > range_start.month

\* the window of month m of the year of range.start in a one-season range
SeasonWindow(m) ==
    LET y == range_start.year
        first == IF m = range_start.month THEN range_start.day ELSE 1
        last == IF m = range_end.month THEN range_end.day ELSE MonthRange(y, m)
    IN <<Strftime([year |-> y, month |-> m, day |-> first, hour |-> 0]),
         Strftime([year |-> y, month |-> m, day |-> last, hour |-> 23])>>

C5_SingleMonthOneWindow ==
    (split_pc # "call" /\ SameMonth) =>
        /\ split_pc = "returned"
        /\ NumWindows = 1

\* months counted from year 0
MonthIndex(d) == d.year * 12 + d.month - 1

\* C18: with the filter off the list holds exactly one window for every
\* calendar month from the month of range.start to the month of range.end,
\* in order; also when range.end is on day 01 of its month at an hour
\* smaller than range.start's hour.
C18_WindowPerCalendarMonth ==
    (split_pc = "returned" /\ ~filter_arg) =>
        LET n == MonthIndex(range_end) - MonthIndex(range_start) + 1
        IN /\ NumWindows = n
           /\ \A k \in 1..n :
                 /\ MonthIndex(WinStart(k)) = MonthIndex(range_start) + k - 1
                 /\ MonthIndex(WinEnd(k)) = MonthIndex(range_start) + k - 1

\* month m of year y has a day inside the annual season
SeasonTouches(y, m) == \E d \in 1..MonthRange(y, m) : InsideSeason(m * 100 + d)

\* C19: with the filter on and annual_start <= annual_end, every year from
\* the year of range.start to the year of range.end and every calendar
\* month of it with a day inside the season has a window in the list; also
\* when the season lies inside one month and the range spans several years.
\* Stated for ranges whose end hour is not smaller than their start hour,
\* so that the month of range.end is visited.
C19_SeasonEveryYear ==
    (split_pc = "returned" /\ filter_arg
        /\ MMDD(start_date_str) <= MMDD(end_date_str)
        /\ range_start.hour <= range_end.hour) =>
        \A y \in range_start.year..range_end.year : \A m \in 1..12 :
            SeasonTouches(y, m) =>
                \E i \in 1..NumWindows :
                    WinStart(i).year = y /\ WinStart(i).month = m

\* C21: for every valid range, those starting or ending on 29 February of
\* a leap year included, and for both values of filter_month_days, the
\* call returns a list of windows: deriving the month/day bounds pinned to
\* the sentinel year does not fail.
C21_LeapDayAccepted ==
    (split_pc # "call") =>
        /\ split_pc = "returned"
        /\ StrptimeMMDDOk(MMDD(start_date_str))
        /\ StrptimeMMDDOk(MMDD(end_date_str))

\* ------------------------------------------------------------------------
\* getWX: inputs and environment
\* ------------------------------------------------------------------------

\* names are character sequences
NameKN == <<"K", "N">>

NameBC == <<"B", " ", "C">>

NameZ == <<"Z">>

NameSet == {NameKN, NameBC, NameZ}

NameLists == UNION {[1..n -> NameSet] : n \in 0..MaxNames}

\* the features of bc_communities_epsg4326.shp, in file order
CommunityShp ==
    << [Name |-> NameBC, coordinates |-> <<1, 51>>],
       [Name |-> NameKN, coordinates |-> <<2, 52>>] >>

\* the features of a point shapefile with n features, in file order
PointFeatures(n) == [k \in 1..n |-> [coordinates |-> <<10 + k, 50 + k>>]]

\* the date ranges getWX is called with: within one month, over a year
\* boundary, and over a year boundary starting on 29 February
WXRanges ==
    { <<2021060108, 2021060512>>, <<2020121008, 2021011012>>,
      <<2020022900, 2021011012>> }

Shapefiles ==
    { [exists |-> FALSE, crs4326 |-> TRUE, geometry |-> "Point", feats |-> 0] }
    \cup [exists : {TRUE}, crs4326 : BOOLEAN,
          geometry : {"Point", "Polygon", "LineString"}, feats : 0..MaxFeatures]

\* what the upstream may answer
ErrorResponses ==
    [status : {400, 500}, messageTemplate : {"tmplA", "tmplB"},
     messageArguments : {"args"}]

FirstResponses(pages_left) ==
    ErrorResponses \cup
    { [status |-> 200, totalPageCount |-> n] :
        n \in 0..(IF pages_left < MaxPages THEN pages_left ELSE MaxPages) }

PageResponses(req) ==
    ErrorResponses \cup { [status |-> 200, collection |-> <<req.idx, req.pageNumber>>] }

\* ------------------------------------------------------------------------
\* getWX: helpers
\* ------------------------------------------------------------------------

\* rows per page asked of the upstream
PageRowCount == 100

\* str.replace(old, new) on a character sequence; new is a sequence
RECURSIVE StrReplace(_, _, _)
StrReplace(s, old, new) ==
    IF s = <<>> THEN <<>>
    ELSE (IF Head(s) = old THEN new ELSE <<Head(s)>>) \o StrReplace(Tail(s), old, new)

\* start_date[:-2] + '00'
ForceDailyStart(s) == (s \div 100) * 100

\* end_date[:-2] + '23'
ForceDailyEnd(e) == (e \div 100) * 100 + 23

\* f'{base_url}/{data_type}?{query}&from={date[0]}&to={date[1]}'
Url(dt, query, date) ==
    [data_type |-> dt, query |-> query, from |-> date[1], to |-> date[2]]

\* f'{url}&pageNumber={i}&pageRowCount=100'
PageUrl(url, i) == [url |-> url, pageNumber |-> i, pageRowCount |-> PageRowCount]

\* "for date in wx_dates: url_list.extend([...])"
RECURSIVE DateLoop(_, _, _, _)
DateLoop(dt, query, dates, acc) ==
    IF dates = <<>> THEN acc
    ELSE DateLoop(dt, query, Tail(dates), Append(acc, Url(dt, query, Head(dates))))

\* the query string of a station
StationQuery(name) == <<"stationName", StrReplace(name, " ", <<"%", "2", "0">>)>>

\* the query string of a point and a distance
PointQuery(coord, radius) == <<"point", coord[1], coord[2], "distance", radius>>

\* mutant of StationLoop: url_list is emptied for every name, so that only
\* the last name's requests remain
StationLoopReset(dt, names, dates, acc) ==
    IF names = <<>> THEN acc
    ELSE DateLoop(dt, StationQuery(names[Len(names)]), dates, <<>>)

\* "for name in query_names: ..."
RECURSIVE StationLoop(_, _, _, _)
StationLoop(dt, names, dates, acc) ==
    IF names = <<>> THEN acc
    ELSE StationLoop(dt, Tail(names), dates,
                     DateLoop(dt, StationQuery(Head(names)), dates, acc))

\* "for coord in coord_list: ..."
RECURSIVE CoordLoop(_, _, _, _, _)
CoordLoop(dt, coords, radius, dates, acc) ==
    IF coords = <<>> THEN acc
    ELSE CoordLoop(dt, Tail(coords), radius, dates,
                   DateLoop(dt, PointQuery(Head(coords), radius), dates, acc))

\* the elements of a sequence, as a set
Range(s) == {s[i] : i \in DOMAIN s}

\* mutant of CommunityCoords: every feature is taken, whatever its Name
CommunityCoordsAll(feats, names) == [k \in DOMAIN feats |-> feats[k].coordinates]

\* [feat.coordinates for feat in in_shp if feat.Name in query_names]
RECURSIVE CommunityCoords(_, _)
CommunityCoords(feats, names) ==
    IF feats = <<>> THEN <<>>
    ELSE (IF Head(feats).Name \in Range(names)
          THEN <<Head(feats).coordinates>> ELSE <<>>)
         \o CommunityCoords(Tail(feats), names)

\* [feat.coordinates for feat in in_shp]
ShapeCoords(feats) == [k \in DOMAIN feats |-> feats[k].coordinates]

\* mutant of HasData: the test is always true
HasDataAlways(resps) == Len(resps) >= 0

\* "if len(responses) > 0"
HasData(resps) == Len(resps) > 0

\* mutant of InPageRange: range(1, page_count)
InPageRangeExclusive(i, count) == i < count

\* "for i in range(1, page_count + 1)": i is in the range
InPageRange(i, count) == i <= count

\* the label of the output file
OutName(names, many) ==
    IF Len(names) > 1 THEN <<many>> ELSE StrReplace(names[1], " ", <<"_">>)

\* "_{start_date}_to_{end_date}.csv"
DatesSuffix(s, e) == <<"_", ToString(s), "_to_", ToString(e), ".csv">>

\* the file name written, as the pieces the f-string joins
OutFile(method, dt, names, radius, geometry, s, e) ==
    IF method = "station"
    THEN <<dt, "_">> \o OutName(names, "MultipleStations") \o DatesSuffix(s, e)
    ELSE IF method = "community"
    THEN <<dt, "_">> \o OutName(names, "MultipleCommunities")
         \o <<"_", radius, "kmBuffer">> \o DatesSuffix(s, e)
    ELSE IF geometry = "Point"
    THEN <<dt, "_", "shp_name", "_", radius, "kmBuffer">> \o DatesSuffix(s, e)
    ELSE <<dt, "_", "shp_name">> \o DatesSuffix(s, e)

\* the run ends with an exception
Raise(exc) == pc' = "raised" /\ raised' = exc

\* what _projectShapefile does to a shapefile that is not in EPSG:4326:
\* the ways it can end, each with the state of the temp folder.  It unpacks
\* every feature's coordinates as one x, y pair and writes Point features
\* under the source schema, so any feature of another geometry makes it fail,
\* before or after the output file was opened.
ProjectShapefile(s) ==
    IF s.geometry # "Point" /\ s.feats >= 1
    THEN { [exc |-> [type |-> "ValueError", what |-> "_projectShapefile"],
            temp |-> [dir |-> TRUE, file |-> FALSE]],
           [exc |-> [type |-> "GeometryTypeValidationError", what |-> "_projectShapefile"],
            temp |-> [dir |-> TRUE, file |-> TRUE]] }
    ELSE { [exc |-> NoError, temp |-> [dir |-> TRUE, file |-> TRUE]] }

\* the shapefile branch after the shapefile was opened and reprojected:
\* the exception raised (or NoError) and url_list
ShapefileUrls(s, dt, radius, dates) ==
    IF s.geometry \notin {"Point", "Polygon"}
    THEN [exc |-> [type |-> "TypeError", what |-> "shp_type"], urls |-> Unbound]
    ELSE IF s.geometry = "Point"
    THEN [exc |-> NoError,
          urls |-> CoordLoop(dt, ShapeCoords(PointFeatures(s.feats)), radius, dates, <<>>)]
    ELSE IF s.feats >= 1
    THEN [exc |-> [type |-> "TypeError", what |-> "bbox_list.append"], urls |-> Unbound]
    ELSE [exc |-> NoError, urls |-> Unbound]

\* ------------------------------------------------------------------------
\* getWX: the run
\* ------------------------------------------------------------------------

NoShapefile == [exists |-> FALSE, crs4326 |-> TRUE, geometry |-> "Point", feats |-> 0]

Init ==
    /\ SplitIdle
    /\ query_method \in {"station", "community", "shapefile", "other"}
    /\ data_type \in {"dailies", "hourlies", "other"}
    /\ \E r \in WXRanges : start_date = r[1] /\ end_date = r[2]
    /\ filter_month_days \in BOOLEAN
    /\ query_names \in (IF query_method \in {"station", "community"}
                        THEN NameLists ELSE {<<>>})
    /\ search_radius \in (IF query_method \in {"community", "shapefile"}
                          THEN {None, "5.0"} ELSE {None})
    /\ shp \in (IF query_method = "shapefile" THEN Shapefiles ELSE {NoShapefile})
    /\ pc = "verify" /\ raised = NoError
    /\ wx_dates = <<>> /\ url_list = Unbound /\ url_idx = 0
    /\ page_count = 0 /\ page_i = 0
    /\ requests = <<>> /\ answered = <<>> /\ responses = <<>>
    /\ files = <<>> /\ no_data_reported = FALSE
    /\ temp = [dir |-> FALSE, file |-> FALSE]
    /\ TableIdle

\* "VERIFY INPUT PARAMETERS"
Verify ==
    /\ pc = "verify"
    /\ IF query_method \notin {"station", "community", "shapefile"}
       THEN Raise([type |-> "ValueError", what |-> "query_method"])
       ELSE IF query_method = "community" /\ search_radius = None
       THEN Raise([type |-> "ValueError", what |-> "search_radius"])
       ELSE IF data_type \notin {"dailies", "hourlies"}
       THEN Raise([type |-> "ValueError", what |-> "data_type"])
       ELSE pc' = "dates" /\ UNCHANGED raised
    /\ UNCHANGED <<svars, avars, inputs, start_date, end_date, wx_dates, url_list, url_idx,
                   page_count, page_i, requests, answered, responses, files,
                   no_data_reported, temp>>

\* "MODIFY INPUT PARAMETERS" and "GENERATE WEATHER DATE LIST"
GenerateDates ==
    /\ pc = "dates"
    /\ start_date' = (IF data_type = "dailies" THEN ForceDailyStart(start_date)
                      ELSE start_date)
    /\ end_date' = (IF data_type = "dailies" THEN ForceDailyEnd(end_date)
                    ELSE end_date)
    /\ LET r == GetFilteredMonthDays(start_date', end_date', filter_month_days)
       IN IF r.raised # "none"
          THEN Raise([type |-> r.raised, what |-> "_getFilteredMonthDays"])
               /\ UNCHANGED wx_dates
          ELSE wx_dates' = r.windows /\ pc' = "urls" /\ UNCHANGED raised
    /\ UNCHANGED <<svars, avars, inputs, url_list, url_idx, page_count, page_i, requests,
                   answered, responses, files, no_data_reported, temp>>

\* "GENERATE URLS BY QUERY METHOD": station and community
GenerateUrls ==
    /\ pc = "urls"
    /\ query_method \in {"station", "community"}
    /\ url_list' =
          (IF query_method = "station"
           THEN StationLoop(data_type, query_names, wx_dates, <<>>)
           ELSE CoordLoop(data_type, CommunityCoords(CommunityShp, query_names),
                          search_radius, wx_dates, <<>>))
    /\ pc' = "fetch"
    /\ url_idx' = 1
    /\ UNCHANGED <<svars, avars, inputs, start_date, end_date, raised, wx_dates, page_count,
                   page_i, requests, answered, responses, files, no_data_reported,
                   temp>>

\* "GENERATE URLS BY QUERY METHOD": shapefile
GenerateShapefileUrls ==
    /\ pc = "urls"
    /\ query_method = "shapefile"
    /\ IF ~shp.exists
       THEN /\ Raise([type |-> "ValueError", what |-> "shp_path"])
            /\ UNCHANGED <<url_list, url_idx, temp>>
       ELSE \E p \in (IF shp.crs4326
                      THEN {[exc |-> NoError, temp |-> temp]}
                      ELSE ProjectShapefile(shp)) :
              /\ temp' = p.temp
              /\ IF p.exc # NoError
                 THEN Raise(p.exc) /\ UNCHANGED <<url_list, url_idx>>
                 ELSE LET u == ShapefileUrls(shp, data_type, search_radius, wx_dates)
                      IN IF u.exc # NoError
                         THEN Raise(u.exc) /\ UNCHANGED <<url_list, url_idx>>
                         ELSE /\ url_list' = u.urls
                              /\ url_idx' = 1
                              /\ pc' = "fetch"
                              /\ UNCHANGED raised
    /\ UNCHANGED <<svars, avars, inputs, start_date, end_date, wx_dates, page_count, page_i,
                   requests, answered, responses, files, no_data_reported>>

\* "for url in url_list": the next url, and requests.get(url) is sent
NextUrl ==
    /\ pc = "fetch"
    /\ IF url_list = Unbound
       THEN /\ Raise([type |-> "UnboundLocalError", what |-> "url_list"])
            /\ UNCHANGED requests
       ELSE IF url_idx > Len(url_list)
       THEN pc' = "save" /\ UNCHANGED <<raised, requests>>
       ELSE /\ requests' = Append(requests,
                               [idx |-> url_idx, url |-> url_list[url_idx],
                                pageNumber |-> 0])
            /\ pc' = "await_first"
            /\ UNCHANGED raised
    /\ UNCHANGED <<svars, avars, inputs, start_date, end_date, wx_dates, url_list, url_idx,
                   page_count, page_i, answered, responses, files, no_data_reported,
                   temp>>

\* requests.get(url) returns: the status check and totalPageCount
RecvFirst ==
    /\ pc = "await_first"
    /\ \E res \in FirstResponses(MaxTotalPages - Len(responses)) :
        /\ answered' = Append(answered, res)
        /\ IF res.status >= 400
           THEN /\ Raise([type |-> "ValueError", what |-> "Search URL is invalid",
                          url |-> url_list[url_idx],
                          msg_template |-> res.messageTemplate,
                          msg_args |-> res.messageArguments])
                /\ UNCHANGED <<page_count, page_i>>
           ELSE /\ page_count' = res.totalPageCount
                /\ page_i' = 1
                /\ pc' = (IF res.totalPageCount >= 1 THEN "page" ELSE "next")
                /\ UNCHANGED raised
    /\ UNCHANGED <<svars, avars, inputs, start_date, end_date, wx_dates, url_list, url_idx,
                   requests, responses, files, no_data_reported, temp>>

\* "for i in range(1, page_count + 1)": the next page is requested, or the
\* loop is left
NextPage ==
    /\ pc = "page"
    /\ IF InPageRange(page_i, page_count)
       THEN /\ requests' = Append(requests,
                               [idx |-> url_idx,
                                url |-> PageUrl(url_list[url_idx], page_i),
                                pageNumber |-> page_i])
            /\ pc' = "await_page"
       ELSE pc' = "next" /\ UNCHANGED requests
    /\ UNCHANGED <<svars, avars, inputs, start_date, end_date, raised, wx_dates, url_list,
                   url_idx, page_count, page_i, answered, responses, files,
                   no_data_reported, temp>>

\* requests.get(page_url).json()['collection'] is appended to responses; an
\* error body has no 'collection'
RecvPage ==
    /\ pc = "await_page"
    /\ \E res \in PageResponses(requests[Len(requests)]) :
        /\ answered' = Append(answered, res)
        /\ IF res.status >= 400
           THEN /\ Raise([type |-> "KeyError", what |-> "collection"])
                /\ UNCHANGED <<responses, page_i>>
           ELSE /\ responses' = Append(responses, res.collection)
                /\ page_i' = page_i + 1
                /\ pc' = "page"
                /\ UNCHANGED raised
    /\ UNCHANGED <<svars, avars, inputs, start_date, end_date, wx_dates, url_list, url_idx,
                   page_count, requests, files, no_data_reported, temp>>

\* the body of "for url in url_list" is finished
EndUrl ==
    /\ pc = "next"
    /\ url_idx' = url_idx + 1
    /\ pc' = "fetch"
    /\ UNCHANGED <<svars, avars, inputs, start_date, end_date, raised, wx_dates, url_list,
                   page_count, page_i, requests, answered, responses, files,
                   no_data_reported, temp>>

\* "if len(responses) > 0": the file is written and the temp folder
\* deleted, or 'No data was found' is printed
Save ==
    /\ pc = "save"
    /\ IF HasData(responses)
       THEN IF query_method # "shapefile" /\ Len(query_names) = 0
            THEN \* query_names[0] of an empty list
                 /\ Raise([type |-> "IndexError", what |-> "query_names[0]"])
                 /\ UNCHANGED <<files, no_data_reported, temp>>
            ELSE
            /\ files' = Append(files, OutFile(query_method, data_type, query_names,
                                              search_radius, shp.geometry,
                                              start_date, end_date))
            /\ UNCHANGED no_data_reported
            /\ IF query_method = "shapefile" /\ ~shp.crs4326
               THEN \* os.remove(shp_path), then os.remove(temp_path) on a folder
                    /\ temp' = [dir |-> temp.dir, file |-> FALSE]
                    /\ IF temp.dir
                       THEN Raise([type |-> "OSError", what |-> "os.remove(temp_path)"])
                       ELSE pc' = "done" /\ UNCHANGED raised
               ELSE pc' = "done" /\ UNCHANGED <<raised, temp>>
       ELSE /\ no_data_reported' = TRUE
            /\ pc' = "done"
            /\ UNCHANGED <<raised, files, temp>>
    /\ UNCHANGED <<svars, avars, inputs, start_date, end_date, wx_dates, url_list, url_idx,
                   page_count, page_i, requests, answered, responses>>

Next ==
    \/ Verify
    \/ GenerateDates
    \/ GenerateUrls
    \/ GenerateShapefileUrls
    \/ NextUrl
    \/ RecvFirst
    \/ NextPage
    \/ RecvPage
    \/ EndUrl
    \/ Save

Spec == Init /\ [][Next]_vars

\* ------------------------------------------------------------------------
\* The table getWX writes: "if len(responses) > 0" up to to_csv.
\* Under Spec a fetched page is kept as its (descriptor, page) pair; here
\* the pages carry their rows.
\* ------------------------------------------------------------------------

MaxRows == 3

\* columns of a fetched row, in the order the data frame holds them
RawColumns == <<"lead1", "lead2", "stationName", "weatherTimestamp",
                "temperature", "geometry">>

RECURSIVE ColumnIndex(_, _)
ColumnIndex(columns, name) ==
    IF columns[1] = name THEN 1 ELSE 1 + ColumnIndex(Tail(columns), name)

\* pd.concat(responses): the rows of every page, in page order
RECURSIVE Concat(_)
Concat(frames) ==
    IF frames = <<>> THEN <<>> ELSE Head(frames) \o Concat(Tail(frames))

\* data_df.iloc[:, 2:]
DropLeading(seq) == SubSeq(seq, 3, Len(seq))

\* data_df.drop(columns='geometry')
DropColumn(seq, columns, name) ==
    LET k == ColumnIndex(columns, name)
    IN SubSeq(seq, 1, k - 1) \o SubSeq(seq, k + 1, Len(seq))

\* the columns written to the file
Columns == DropColumn(DropLeading(RawColumns), DropLeading(RawColumns), "geometry")

CleanRow(row) == DropColumn(DropLeading(row), DropLeading(RawColumns), "geometry")

RECURSIVE CleanRows(_)
CleanRows(rows) ==
    IF rows = <<>> THEN <<>> ELSE <<CleanRow(Head(rows))>> \o CleanRows(Tail(rows))

StationNameOf(row) == row[ColumnIndex(Columns, "stationName")]

TimestampOf(row) == row[ColumnIndex(Columns, "weatherTimestamp")]

\* data_df.drop_duplicates(): a row equal in every column to an earlier
\* row is dropped
RECURSIVE DropDuplicates(_)
DropDuplicates(rows) ==
    IF rows = <<>> THEN <<>>
    ELSE LET front == DropDuplicates(SubSeq(rows, 1, Len(rows) - 1))
             last  == rows[Len(rows)]
         IN IF \E i \in 1..Len(front) : front[i] = last
            THEN front ELSE Append(front, last)

\* the order of sort_values(by=['stationName', 'weatherTimestamp'])
KeyLess(a, b) ==
    \/ StationNameOf(a) < StationNameOf(b)
    \/ /\ StationNameOf(a) = StationNameOf(b)
       /\ TimestampOf(a) < TimestampOf(b)

\* row goes behind every row that is not greater than it
Insert(sorted, row) ==
    LET k == Cardinality({i \in 1..Len(sorted) : ~KeyLess(row, sorted[i])})
    IN SubSeq(sorted, 1, k) \o <<row>> \o SubSeq(sorted, k + 1, Len(sorted))

\* mutant of SortValues: the rows stay in fetch order
SortValuesNone(rows) == rows

\* data_df.sort_values(...): ascending, rows of equal key keep their order
RECURSIVE SortValues(_)
SortValues(rows) ==
    IF rows = <<>> THEN <<>>
    ELSE Insert(SortValues(SubSeq(rows, 1, Len(rows) - 1)), rows[Len(rows)])

RECURSIVE SelectRows(_, _)
SelectRows(rows, keep) ==
    IF rows = <<>> THEN <<>>
    ELSE (IF keep[1] THEN <<Head(rows)>> ELSE <<>>)
         \o SelectRows(Tail(rows), Tail(keep))

\* mutant of GetFilteredHours: Hour < hh_end
GetFilteredHoursExclusive(hourly_df, start_date_arg, end_date_arg) ==
    LET hh_start == Strptime(start_date_arg).hour
        hh_end   == Strptime(end_date_arg).hour
        Hour     == [i \in 1..Len(hourly_df) |-> Strptime(TimestampOf(hourly_df[i])).hour]
    IN SelectRows(hourly_df,
                  [i \in 1..Len(hourly_df) |-> Hour[i] >= hh_start /\ Hour[i] < hh_end])

\* _getFilteredHours(hourly_df, 'weatherTimestamp', start_date, end_date)
GetFilteredHours(hourly_df, start_date_arg, end_date_arg) ==
    LET hh_start == Strptime(start_date_arg).hour
        hh_end   == Strptime(end_date_arg).hour
        Hour     == [i \in 1..Len(hourly_df) |-> Strptime(TimestampOf(hourly_df[i])).hour]
    IN SelectRows(hourly_df,
                  [i \in 1..Len(hourly_df) |-> Hour[i] >= hh_start /\ Hour[i] <= hh_end])

\* the rows before the hour filter
Deduplicated(frames) == SortValues(DropDuplicates(CleanRows(Concat(frames))))

\* rows the upstream service can return: stationName stands for its rank
\* in string order.  Two rows differ in a leading column only, two share
\* their key and differ in temperature, and the timestamps fall in two
\* monthly windows at hours 07, 08, 18 and 19.
FetchedRows ==
    { <<0, 0, 1, 2021060107, 10, "geom">>,
      <<0, 0, 1, 2021060108, 10, "geom">>,
      <<1, 0, 1, 2021060108, 10, "geom">>,
      <<0, 0, 1, 2021060108, 11, "geom">>,
      <<0, 0, 1, 2021070518, 10, "geom">>,
      <<0, 0, 1, 2021070519, 10, "geom">>,
      <<0, 0, 2, 2021060108, 10, "geom">>,
      <<0, 0, 2, 2021070518, 10, "geom">> }

RowLists == UNION {[1..n -> FetchedRows] : n \in 0..MaxRows}

\* the rows as the pages delivered them: one page, or two
Paged(rows) ==
    {<<rows>>} \cup {<<SubSeq(rows, 1, k), SubSeq(rows, k + 1, Len(rows))>> :
                       k \in 1..(Len(rows) - 1)}

\* the caller's data_type, start_date and end_date
TableRuns ==
    { <<"hourlies", 2021060108, 2021073118>>,
      <<"hourlies", 2021060118, 2021073108>>,
      <<"dailies",  2021060108, 2021073118>> }

\* getWX stands at "if len(responses) > 0" with pages fetched
TableInit ==
    /\ SplitIdle
    /\ query_method = "station"
    /\ \E r \in TableRuns :
          /\ data_type = r[1]
          /\ start_date = (IF r[1] = "dailies" THEN ForceDailyStart(r[2]) ELSE r[2])
          /\ end_date = (IF r[1] = "dailies" THEN ForceDailyEnd(r[3]) ELSE r[3])
    /\ filter_month_days = FALSE
    /\ filter_hours \in BOOLEAN
    /\ query_names = <<NameKN>> /\ search_radius = None
    /\ shp = NoShapefile
    /\ pc = "save" /\ raised = NoError
    /\ wx_dates = <<>> /\ url_list = <<>> /\ url_idx = 0
    /\ page_count = 0 /\ page_i = 0
    /\ requests = <<>> /\ answered = <<>>
    /\ \E rows \in RowLists : responses \in Paged(rows)
    /\ files = <<>> /\ no_data_reported = FALSE
    /\ temp = [dir |-> FALSE, file |-> FALSE]
    /\ data_df = <<>>

\* concat, drop columns, drop_duplicates, sort_values, hour filter, to_csv
WriteTable ==
    /\ pc = "save"
    /\ Concat(responses) # <<>>
    /\ data_df' = (IF filter_hours
                   THEN GetFilteredHours(Deduplicated(responses), start_date, end_date)
                   ELSE Deduplicated(responses))
    /\ files' = Append(files, OutFile(query_method, data_type, query_names,
                                      search_radius, shp.geometry,
                                      start_date, end_date))
    /\ pc' = "done"
    /\ UNCHANGED <<svars, inputs, start_date, end_date, raised, wx_dates, url_list,
                   url_idx, page_count, page_i, requests, answered, responses,
                   no_data_reported, temp, filter_hours>>

\* the pages held no row: the frame has no 'geometry' column to drop
WriteTableRaise ==
    /\ pc = "save"
    /\ Concat(responses) = <<>>
    /\ Raise([type |-> "KeyError", what |-> "geometry"])
    /\ UNCHANGED <<svars, avars, inputs, start_date, end_date, wx_dates, url_list,
                   url_idx, page_count, page_i, requests, answered, responses,
                   files, no_data_reported, temp>>

TableNext == WriteTable \/ WriteTableRaise

TableSpec == TableInit /\ [][TableNext]_vars

\* ------------------------------------------------------------------------
\* Claims about getWX (checked under Spec)
\* ------------------------------------------------------------------------

\* the community features a query names, in file order
MatchedFeatures ==
    SelectSeq(CommunityShp, LAMBDA f : \E i \in DOMAIN query_names : query_names[i] = f.Name)

\* the spatial terms of a station or community query, in input order
Terms ==
    IF query_method = "station"
    THEN [i \in DOMAIN query_names |-> StationQuery(query_names[i])]
    ELSE [k \in DOMAIN MatchedFeatures |->
             PointQuery(MatchedFeatures[k].coordinates, search_radius)]

\* C6: for station and community queries the request list is the Cartesian
\* product of spatial terms and date windows, |terms| * |windows| long, term
\* outer and window inner: term i and window j are at (i-1)*|windows| + j.
C6_CartesianProduct ==
    (query_method \in {"station", "community"} /\ url_list # Unbound) =>
        /\ Len(url_list) = Len(Terms) * Len(wx_dates)
        /\ \A i \in DOMAIN Terms : \A j \in DOMAIN wx_dates :
              url_list[(i - 1) * Len(wx_dates) + j] = Url(data_type, Terms[i], wx_dates[j])

\* C6 witness: two different stations and two windows
C6_Witness ==
    /\ query_method = "station"
    /\ url_list # Unbound
    /\ Len(query_names) = 2 /\ query_names[1] # query_names[2]
    /\ Len(wx_dates) = 2
    /\ pc = "fetch"

\* descriptor i is finished: the body of the url loop has run to its end
Finished(i) == url_idx > i \/ (url_idx = i /\ pc = "next")

\* the page requests of descriptor i, in the order sent
PagesOf(i) == SelectSeq(requests, LAMBDA r : r.idx = i /\ r.pageNumber > 0)

\* the rows received from the pages, in the order the pages were answered
PagesAnswered ==
    LET got == SelectSeq([k \in DOMAIN answered |-> <<requests[k], answered[k]>>],
                         LAMBDA p : p[1].pageNumber > 0 /\ p[2].status < 400)
    IN [k \in DOMAIN got |-> <<got[k][1].idx, got[k][1].pageNumber>>]

\* C7: a descriptor whose first response reports totalPageCount = N gets
\* exactly N page requests, numbered 1..N in that order with page size 100;
\* a request is sent only after the previous one was answered; the pages'
\* rows are appended to the result in that order; descriptors are processed
\* in planner order.
C7_PagesInOrder ==
    /\ Len(answered) <= Len(requests) /\ Len(requests) <= Len(answered) + 1
    /\ requests # <<>> => (requests[1].idx = 1 /\ requests[1].pageNumber = 0)
    /\ \A k \in 1..(Len(requests) - 1) :
          \/ /\ requests[k + 1].idx = requests[k].idx + 1
             /\ requests[k + 1].pageNumber = 0
          \/ /\ requests[k + 1].idx = requests[k].idx
             /\ requests[k + 1].pageNumber = requests[k].pageNumber + 1
    /\ \A k \in DOMAIN requests :
          requests[k].url = (IF requests[k].pageNumber = 0
                             THEN url_list[requests[k].idx]
                             ELSE [url |-> url_list[requests[k].idx],
                                   pageNumber |-> requests[k].pageNumber,
                                   pageRowCount |-> 100])
    /\ \A k \in DOMAIN answered :
          (requests[k].pageNumber = 0 /\ answered[k].status < 400
              /\ Finished(requests[k].idx)) =>
             Len(PagesOf(requests[k].idx)) = answered[k].totalPageCount
    /\ responses = PagesAnswered

\* C7 witness: a finished run in which a descriptor had two pages and a
\* later one had a page too
C7_Witness ==
    /\ pc = "done"
    /\ Len(responses) = 3
    /\ responses[1] = <<1, 1>> /\ responses[2] = <<1, 2>> /\ responses[3][1] > 1

\* every answer so far was a success and reported no page
NoPagesReported ==
    \A k \in DOMAIN answered :
        /\ answered[k].status < 400
        /\ requests[k].pageNumber = 0
        /\ answered[k].totalPageCount = 0

C9_UpstreamErrorIsInvalidQuery ==
    \A k \in DOMAIN answered :
        answered[k].status >= 400 =>
            /\ pc = "raised"
            /\ raised.type = "ValueError"
            /\ raised.what = "Search URL is invalid"
            /\ raised.msg_template = answered[k].messageTemplate
            /\ raised.msg_args = answered[k].messageArguments
            /\ k = Len(requests)
            /\ files = <<>>

\* the inputs C10 calls invalid
InvalidInput ==
    \/ query_method \notin {"station", "community", "shapefile"}
    \/ data_type \notin {"dailies", "hourlies"}
    \/ query_method = "community" /\ search_radius = None
    \/ query_method = "shapefile" /\ ~shp.exists
    \/ query_method = "shapefile" /\ shp.exists /\ shp.geometry = "Point"
          /\ search_radius = None
    \/ query_method = "shapefile" /\ shp.exists
          /\ shp.geometry \notin {"Point", "Polygon"}

\* C10: every invalid input (unknown query_method or data_type, missing
\* search_radius for a community query or a point shapefile, missing
\* shapefile, geometry other than point or polygon) raises an error while
\* no HTTP request has been issued.
C10_InvalidInputFailsFast ==
    InvalidInput => (requests = <<>> /\ pc # "done")

\* query specifications of station and community runs that can write a file
QuerySpecs ==
    { q \in [query_method : {"station", "community"},
             data_type : {"dailies", "hourlies"},
             query_names : NameLists \ {<<>>},
             search_radius : {None, "5.0"},
             range : WXRanges] :
        (q.query_method = "community") <=> (q.search_radius # None) }

\* start_date and end_date as getWX uses them once dailies are rewritten
DatesUsed(q) ==
    IF q.data_type = "dailies"
    THEN <<ForceDailyStart(q.range[1]), ForceDailyEnd(q.range[2])>>
    ELSE q.range

\* the file a run of q writes
OutFileOf(q) ==
    OutFile(q.query_method, q.data_type, q.query_names, q.search_radius, "Point",
            DatesUsed(q)[1], DatesUsed(q)[2])

\* q is another specification than the one of this run
DiffersFromRun(q) ==
    \/ q.query_method # query_method
    \/ q.data_type # data_type
    \/ q.query_names # query_names
    \/ q.search_radius # search_radius
    \/ DatesUsed(q) # <<start_date, end_date>>

\* C14: the output file name is injective over query specifications: a run
\* of a specification that differs from this run's in data_type,
\* query_method, the list of names, the radius or the start/end strings
\* never writes the path this run wrote.
C14_FileNameInjective ==
    (pc = "done" /\ files # <<>> /\ query_method \in {"station", "community"}) =>
        \A q \in QuerySpecs : DiffersFromRun(q) => OutFileOf(q) # files[1]

\* the run has ended
Ended == pc \in {"done", "raised"}

\* getWX got past its input checks and built wx_dates
DatesBuilt ==
    /\ pc \notin {"verify", "dates"}
    /\ ~(pc = "raised" /\ raised.what \in {"query_method", "search_radius",
                                           "data_type", "_getFilteredMonthDays"})

\* C15: a run that created the temporary reprojected shapefile has removed
\* it when it ends, whether it wrote data, found none or failed after the
\* reprojection, and the removal never raises an error of its own.
C15_TempRemovedAtEnd ==
    (Ended /\ ~(pc = "raised" /\ raised.what = "_projectShapefile")) =>
        /\ ~temp.file
        /\ ~(pc = "raised" /\ raised.what = "os.remove(temp_path)")

\* C16: a polygon shapefile (here one already in EPSG:4326) with n >= 1
\* features and w windows reaches the fetch phase with n * w requests,
\* polygon outer and window inner, and building them raises nothing.
C16_PolygonUrls ==
    ( /\ query_method = "shapefile" /\ shp.exists /\ shp.crs4326
      /\ shp.geometry = "Polygon" /\ shp.feats >= 1
      /\ DatesBuilt /\ pc # "urls" ) =>
        /\ url_list # Unbound
        /\ Len(url_list) = shp.feats * Len(wx_dates)
        /\ \A k \in 1..shp.feats : \A j \in DOMAIN wx_dates :
              /\ url_list[(k - 1) * Len(wx_dates) + j].from = wx_dates[j][1]
              /\ url_list[(k - 1) * Len(wx_dates) + j].to = wx_dates[j][2]

\* the requests of url_list whose spatial term is the given one
UrlsOf(term) == {i \in DOMAIN url_list : url_list[i].query = term}

NameMatches(feat) == \E i \in DOMAIN query_names : query_names[i] = feat.Name

\* C17: a community query has one proximity term, with the caller's radius,
\* for every community feature whose Name is in query_names, and none for
\* any other feature; a name matching no feature adds no term and raises
\* nothing; when no name matches the run sends no request, reports 'no
\* data' and writes no file.
C17_CommunityTerms ==
    (query_method = "community" /\ DatesBuilt /\ pc # "urls") =>
        /\ url_list # Unbound
        /\ \A k \in DOMAIN CommunityShp :
              Cardinality(UrlsOf(PointQuery(CommunityShp[k].coordinates, search_radius)))
                 = (IF NameMatches(CommunityShp[k]) THEN Len(wx_dates) ELSE 0)
        /\ \A i \in DOMAIN url_list :
              \E k \in DOMAIN CommunityShp :
                 url_list[i].query = PointQuery(CommunityShp[k].coordinates, search_radius)
        /\ ((\A k \in DOMAIN CommunityShp : ~NameMatches(CommunityShp[k])) /\ Ended) =>
              /\ pc = "done" /\ raised = NoError
              /\ requests = <<>> /\ no_data_reported /\ files = <<>>

\* a finished community run that named one community of the file and one
\* name the file does not hold, and sent requests for the first
C17_Witness ==
    /\ query_method = "community" /\ pc = "done"
    /\ \E i \in DOMAIN query_names : \A k \in DOMAIN CommunityShp :
          CommunityShp[k].Name # query_names[i]
    /\ \E k \in DOMAIN CommunityShp : NameMatches(CommunityShp[k])
    /\ \E k \in DOMAIN CommunityShp : ~NameMatches(CommunityShp[k])
    /\ requests # <<>>

\* C20: with the filter on and the month/day of start_date later than the
\* month/day of end_date (a season wrapping the year boundary) no window
\* is emitted, so a station or community run sends no request, reports
\* 'no data' and writes no file.
C20_WrapSeasonNoData ==
    ( /\ filter_month_days
      /\ SliceMMDD(start_date) > SliceMMDD(end_date)
      /\ data_type \in {"dailies", "hourlies"}
      /\ \/ query_method = "station"
         \/ query_method = "community" /\ search_radius # None
      /\ query_names # <<>>
      /\ Ended ) =>
        /\ pc = "done" /\ raised = NoError
        /\ wx_dates = <<>>
        /\ requests = <<>> /\ no_data_reported /\ files = <<>>

\* ------------------------------------------------------------------------
\* Claims about the table written (checked under TableSpec)
\* ------------------------------------------------------------------------

\* the run wrote its table
Written == pc = "done" /\ files # <<>>

\* the rows the pages delivered, reduced to the columns written
Fetched == {CleanRow(r) : r \in Range(Concat(responses))}

HourOf(row) == TimestampOf(row) % 100

start_hour == start_date % 100

end_hour == end_date % 100

\* C11: in the table written, no two rows share station name and
\* timestamp, whatever the pages returned, rows of one key and different
\* weather values included.
C11_KeyUnique ==
    Written =>
        \A i, j \in 1..Len(data_df) :
            ( /\ StationNameOf(data_df[i]) = StationNameOf(data_df[j])
              /\ TimestampOf(data_df[i]) = TimestampOf(data_df[j]) ) => i = j

\* C12: with filter_hours the table holds exactly the fetched rows whose
\* hour lies in start_hour..end_hour, the hours of start_date and end_date
\* after the dailies rewrite, whatever window a row came from; with
\* start_hour <= end_hour a row at either bound stays and a row one hour
\* outside goes.
C12_HourFilterExact ==
    (Written /\ filter_hours) =>
        /\ Range(data_df) =
              {r \in Fetched : start_hour <= HourOf(r) /\ HourOf(r) <= end_hour}
        /\ (data_type = "dailies") => (start_hour = 0 /\ end_hour = 23)
        /\ (start_hour <= end_hour) =>
              \A r \in Fetched :
                 /\ HourOf(r) \in {start_hour, end_hour} => r \in Range(data_df)
                 /\ HourOf(r) \in {start_hour - 1, end_hour + 1} => r \notin Range(data_df)

\* hours 08..18 asked for: rows at 08 and 18 of two windows are kept, rows
\* at 07 or 19 were fetched and are gone
C12_Witness ==
    /\ Written /\ filter_hours
    /\ start_hour < end_hour
    /\ \E a, b \in Range(data_df) :
          /\ HourOf(a) = start_hour /\ HourOf(b) = end_hour
          /\ TimestampOf(a) \div 10000 # TimestampOf(b) \div 10000
    /\ \E r \in Fetched :
          HourOf(r) \in {start_hour - 1, end_hour + 1} /\ r \notin Range(data_df)

\* C13: the table written is in ascending order of (stationName,
\* weatherTimestamp): of two consecutive rows the first has the smaller
\* station name, or the same name and a timestamp not later; also after
\* the hour filter removed rows.
C13_SortedByKey ==
    Written =>
        \A i \in 1..(Len(data_df) - 1) :
            \/ StationNameOf(data_df[i]) < StationNameOf(data_df[i + 1])
            \/ /\ StationNameOf(data_df[i]) = StationNameOf(data_df[i + 1])
               /\ TimestampOf(data_df[i]) <= TimestampOf(data_df[i + 1])

\* rows fetched out of order, the hour filter removed one, two are left
C13_Witness ==
    /\ Written /\ filter_hours
    /\ Len(data_df) >= 2
    /\ \E r \in Fetched : r \notin Range(data_df)
    /\ LET rows == CleanRows(Concat(responses))
       IN \E i \in 1..(Len(rows) - 1) :
             /\ rows[i] \in Range(data_df) /\ rows[i + 1] \in Range(data_df)
             /\ KeyLess(rows[i + 1], rows[i])

====
